---- MODULE Spec2Model ----
(***************************************************************************)
(* Model of review_parser.py: the ingestion of a raw review document, the  *)
(* score computed by ReviewParser._calculate_score, the verdict computed   *)
(* by ReviewParser._determine_pass_status, the issues section of the       *)
(* markdown report and the exit status of main.                            *)
(*                                                                         *)
(* Scores are Python floats (IEEE 754 binary64).  Every float the score    *)
(* computation can produce from integer metrics is a multiple of 2^-55, so *)
(* a float is modelled exactly as a record [i, h, l] denoting              *)
(*            i + (h * 2^30 + l) / 2^55                                    *)
(* with i the floor of the value, 0 <= h < 2^25 and 0 <= l < 2^30, and     *)
(* every operation rounds its exact result to 53 significant bits, ties to *)
(* even, as the hardware does.                                             *)
(***************************************************************************)
EXTENDS Integers, Naturals, Sequences, FiniteSets, TLC

(***************************************************************************)
(* Python float arithmetic                                                 *)
(***************************************************************************)
LBase == 2^30
HBase == 2^25

\* float(n) for an integer n
FloatOfInt(n) == [i |-> n, h |-> 0, l |-> 0]

\* the float literal 0.1 = 3602879701896397 / 2^55
Float01 == [i |-> 0, h |-> 3355443, l |-> 214748365]

\* the float literal 0.2 = 7205759403792794 / 2^55
Float02 == [i |-> 0, h |-> 6710886, l |-> 429496730]

FIsZero(a) == a.i = 0 /\ a.h = 0 /\ a.l = 0

\* a < b on floats
FLess(a, b) ==
    \/ a.i < b.i
    \/ a.i = b.i /\ a.h < b.h
    \/ a.i = b.i /\ a.h = b.h /\ a.l < b.l

\* carries of the two fraction limbs propagated into the integer part
Normalize(i, h, l) ==
    LET cl == IF l < 0 THEN -1 ELSE IF l >= LBase THEN 1 ELSE 0
        h1 == h + cl
        ch == IF h1 < 0 THEN -1 ELSE IF h1 >= HBase THEN 1 ELSE 0
    IN  [i |-> i + ch, h |-> h1 - ch * HBase, l |-> l - cl * LBase]

ExactAdd(a, b) == Normalize(a.i + b.i, a.h + b.h, a.l + b.l)

ExactSub(a, b) == Normalize(a.i - b.i, a.h - b.h, a.l - b.l)

RECURSIVE Log2(_)
\* floor(log2(n)) for n >= 1
Log2(n) == IF n <= 1 THEN 0 ELSE 1 + Log2(n \div 2)

\* exponent e of a value below 1 whose numerator over 2^55 has high limb gh:
\* 2^e <= value < 2^(e+1); anything below 2^-3 is reported as -4
SubUnitExponent(gh) ==
    IF gh >= 2^24 THEN -1
    ELSE IF gh >= 2^23 THEN -2
    ELSE IF gh >= 2^22 THEN -3
    ELSE -4

\* binary exponent of |a|: 2^e <= |a| < 2^(e+1)
Exponent(a) ==
    IF a.i >= 1 THEN Log2(a.i)
    ELSE IF a.i = 0 THEN SubUnitExponent(a.h)
    ELSE IF a.h = 0 /\ a.l = 0 THEN Log2(-a.i)
    ELSE IF a.i <= -2 THEN Log2(-a.i - 1)
    ELSE SubUnitExponent(IF a.l = 0 THEN HBase - a.h ELSE HBase - a.h - 1)

\* an exact multiple of 2^-55 rounded to the nearest float, ties to even:
\* a float in the binade of exponent e is a multiple of 2^(e-52), so the low
\* e + 3 bits of the numerator are rounded away
RoundToFloat(a) ==
    LET e == Exponent(a)
        s == IF e >= -3 THEN e + 3 ELSE 0
        unit == 2^s
        r == a.l % unit
        odd == ((a.l \div unit) % 2) = 1
        up == s > 0 /\ (2 * r > unit \/ (2 * r = unit /\ odd))
    IN  Normalize(a.i, a.h, a.l - r + (IF up THEN unit ELSE 0))

\* a - b on floats
FSub(a, b) == RoundToFloat(ExactSub(a, b))

RECURSIVE ExactTimes(_, _)
\* the exact product k * a for an integer k >= 0
ExactTimes(k, a) ==
    IF k = 0 THEN FloatOfInt(0)
    ELSE LET half == ExactTimes(k \div 2, a)
             twice == ExactAdd(half, half)
         IN  IF k % 2 = 1 THEN ExactAdd(twice, a) ELSE twice

\* k * a for an integer k >= 0 and a float a (float(k) * a, one rounding)
FMulInt(k, a) == RoundToFloat(ExactTimes(k, a))


(***************************************************************************)
(* Data model                                                              *)
(***************************************************************************)
\* class Severity, in declaration order
Severity == <<"critical", "error", "warning", "info">>

Severities == {Severity[k] : k \in 1..Len(Severity)}

\* class IssueCategory
IssueCategory ==
    {"architecture", "code_quality", "testing", "security",
     "documentation", "performance", "anti_pattern"}

\* dict.get(key, default) on a mapping modelled as a record
Get(d, key, default) == IF key \in DOMAIN d THEN d[key] ELSE default

\* JSON values are tagged: [t |-> "obj", v |-> record], [t |-> "list", v |-> sequence],
\* [t |-> "str", has |-> the keys occurring in it as substrings], [t |-> "null"]
IsObj(x) == x.t = "obj"

(***************************************************************************)
(* ReviewParser._extract_metrics                                           *)
(***************************************************************************)
\* the outcome of  key in data : "yes", "no" or "TypeError"
Contains(data, key) ==
    CASE data.t = "obj"  -> IF key \in DOMAIN data.v THEN "yes" ELSE "no"
      [] data.t = "list" -> IF \E k \in 1..Len(data.v) : data.v[k] = key THEN "yes" ELSE "no"
      [] data.t = "str"  -> IF key \in data.has THEN "yes" ELSE "no"
      [] OTHER           -> "TypeError"

\* CodeMetrics() with the fields the score reads
DefaultMetrics == [test_coverage |-> 0, duplication_percentage |-> 0]

\* [raised |-> TRUE] when an exception leaves the function, else the metrics
extract_metrics(data) ==
    LET c == Contains(data, "metrics")
    IN  IF c = "TypeError" THEN [raised |-> TRUE, metrics |-> DefaultMetrics]
        ELSE IF c = "no" THEN [raised |-> FALSE, metrics |-> DefaultMetrics]
        ELSE IF ~IsObj(data) \/ ~IsObj(data.v.metrics)
             THEN [raised |-> TRUE, metrics |-> DefaultMetrics]
        ELSE LET m == data.v.metrics.v
             IN  [raised |-> FALSE,
                  metrics |-> [test_coverage |-> Get(m, "test_coverage", 0),
                               duplication_percentage |-> Get(m, "duplication", 0)]]

(***************************************************************************)
(* ReviewParser._extract_issues                                            *)
(***************************************************************************)
\* what the body of the try block does with one element of data['issues']:
\* "ok", "skip" (KeyError or ValueError, caught) or "raise" (anything else)
IssueOutcome(issue_data) ==
    IF ~IsObj(issue_data) THEN "raise"
    ELSE LET d == issue_data.v
         IN  IF Get(d, "category", "code_quality") \notin IssueCategory THEN "skip"
             ELSE IF Get(d, "severity", "info") \notin Severities THEN "skip"
             ELSE IF "message" \notin DOMAIN d THEN "skip"
             ELSE IF "file" \notin DOMAIN d THEN "skip"
             ELSE "ok"

\* CodeIssue(...) built from a well-formed element
CodeIssue(d) ==
    [category  |-> Get(d, "category", "code_quality"),
     severity  |-> Get(d, "severity", "info"),
     message   |-> d.message,
     file_path |-> d.file]

RECURSIVE ExtractLoop(_, _, _)
\* the for loop over data['issues']: issues collected so far, warnings printed
ExtractLoop(rest, issues, warned) ==
    IF rest = <<>> THEN [raised |-> FALSE, issues |-> issues, warned |-> warned]
    ELSE LET o == IssueOutcome(Head(rest))
         IN  IF o = "raise" THEN [raised |-> TRUE, issues |-> issues, warned |-> warned]
             ELSE IF o = "skip" THEN ExtractLoop(Tail(rest), issues, warned + 1)
             ELSE ExtractLoop(Tail(rest), Append(issues, CodeIssue(Head(rest).v)), warned)

extract_issues(data) ==
    LET c == Contains(data, "issues")
    IN  IF c = "TypeError" THEN [raised |-> TRUE, issues |-> <<>>, warned |-> 0]
        ELSE IF c = "no" THEN [raised |-> FALSE, issues |-> <<>>, warned |-> 0]
        ELSE IF ~IsObj(data) \/ data.v.issues.t # "list"
             THEN [raised |-> TRUE, issues |-> <<>>, warned |-> 0]
        ELSE ExtractLoop(data.v.issues.v, <<>>, 0)

(***************************************************************************)
(* ReviewParser._calculate_score                                           *)
(***************************************************************************)
severity_weights(sev) ==
    CASE sev = "critical" -> FloatOfInt(10)
      [] sev = "error"    -> FloatOfInt(5)
      [] sev = "warning"  -> FloatOfInt(1)
      [] sev = "info"     -> Float01

RECURSIVE DeductIssues(_, _)
\* for issue in result.issues: base_score -= severity_weights[issue.severity]
DeductIssues(base_score, issues) ==
    IF issues = <<>> THEN base_score
    ELSE DeductIssues(FSub(base_score, severity_weights(Head(issues).severity)), Tail(issues))

\* if test_coverage < 80: base_score -= (80 - test_coverage) * 0.2
DeductCoverage(base_score, test_coverage) ==
    IF test_coverage < 80
    THEN FSub(base_score, FMulInt(80 - test_coverage, Float02))
    ELSE base_score

\* DeductDuplication without its guard: favourable duplication adds points
DeductDuplicationUnguarded(base_score, duplication_percentage) ==
    FSub(base_score, FloatOfInt((duplication_percentage - 5) * 2))

\* if duplication_percentage > 5: base_score -= (duplication_percentage - 5) * 2
DeductDuplication(base_score, duplication_percentage) ==
    IF duplication_percentage > 5
    THEN FSub(base_score, FloatOfInt((duplication_percentage - 5) * 2))
    ELSE base_score

\* Clamp without the lower bound: min(100.0, base_score)
ClampWithoutFloor(base_score) ==
    IF FLess(base_score, FloatOfInt(100)) THEN base_score ELSE FloatOfInt(100)

\* max(0.0, min(100.0, base_score))
Clamp(base_score) ==
    LET upper == IF FLess(base_score, FloatOfInt(100)) THEN base_score ELSE FloatOfInt(100)
    IN  IF FLess(FloatOfInt(0), upper) THEN upper ELSE FloatOfInt(0)

\* calculate_score with a loop that starts at the second issue
calculate_score_skipping_first(issues, metrics) ==
    Clamp(DeductDuplication(
            DeductCoverage(DeductIssues(FloatOfInt(100), SubSeq(issues, 2, Len(issues))),
                           metrics.test_coverage),
            metrics.duplication_percentage))

calculate_score(issues, metrics) ==
    Clamp(DeductDuplication(
            DeductCoverage(DeductIssues(FloatOfInt(100), issues), metrics.test_coverage),
            metrics.duplication_percentage))

(***************************************************************************)
(* ReviewParser._determine_pass_status                                     *)
(***************************************************************************)
\* severity_thresholds with the warning limit one too high
severity_thresholds_eleven == [critical |-> 0, error |-> 0, warning |-> 11]

\* self.severity_thresholds; info maps to float('inf'), which no count exceeds,
\* so it has no entry here
severity_thresholds == [critical |-> 0, error |-> 0, warning |-> 10]

\* severity_counts[severity] after the counting loop
severity_counts(issues, sev) ==
    Cardinality({k \in 1..Len(issues) : issues[k].severity = sev})

\* severity_counts[severity] > threshold
ExceedsThreshold(issues, sev) ==
    sev \in DOMAIN severity_thresholds
    /\ severity_counts(issues, sev) > severity_thresholds[sev]

determine_pass_status(issues) ==
    ~(\E sev \in Severities : ExceedsThreshold(issues, sev))

(***************************************************************************)
(* ReviewParser._generate_issues_section and generate_markdown_report      *)
(* A report line is a record: the section title, a subsection heading, or  *)
(* the block of lines _format_issue produces for one issue.  Blank lines   *)
(* are left out.                                                           *)
(***************************************************************************)
\* issue.category.value.replace('_', ' ').title()
CategoryTitle(category) ==
    CASE category = "architecture"  -> "Architecture"
      [] category = "code_quality"  -> "Code Quality"
      [] category = "testing"       -> "Testing"
      [] category = "security"      -> "Security"
      [] category = "documentation" -> "Documentation"
      [] category = "performance"   -> "Performance"
      [] category = "anti_pattern"  -> "Anti Pattern"

format_issue(issue) ==
    [kind |-> "issue", title |-> CategoryTitle(issue.category),
     file |-> issue.file_path, message |-> issue.message]

\* issues_by_severity[sev]
issues_by_severity(issues, sev) ==
    LET OfSeverity(issue) == issue.severity = sev
    IN  SelectSeq(issues, OfSeverity)

\* one  if issues_by_severity[sev]: ...  block
Subsection(issues, sev) ==
    LET group == issues_by_severity(issues, sev)
    IN  IF group = <<>> THEN <<>>
        ELSE <<[kind |-> "heading", severity |-> sev]>>
             \o [k \in 1..Len(group) |-> format_issue(group[k])]

\* generate_issues_section with a subsection for info issues as well
generate_issues_section_with_info(issues) ==
    <<[kind |-> "title"]>>
    \o Subsection(issues, "critical")
    \o Subsection(issues, "error")
    \o Subsection(issues, "warning")
    \o Subsection(issues, "info")

generate_issues_section(issues) ==
    <<[kind |-> "title"]>>
    \o Subsection(issues, "critical")
    \o Subsection(issues, "error")
    \o Subsection(issues, "warning")

\* the parts of the report that depend on the score, the verdict and the issues
generate_markdown_report(issues, score, passed) ==
    [score |-> score, passed |-> passed,
     issues_section |-> generate_issues_section(issues)]

(***************************************************************************)
(* State of one run of main                                                *)
(***************************************************************************)
VARIABLES
    pc,              \* position of main
    args,            \* parsed command line: [strict |-> BOOLEAN]
    input_file,      \* content of args.input as a JSON value, or unreadable
    output_writable, \* whether args.output can be opened for writing
    review_data,     \* json.load(f)
    metrics,         \* result.metrics
    issues,          \* result.issues
    warnings,        \* number of "Skipping malformed issue" lines printed
    score,           \* result.score
    passed,          \* result.passed
    report,          \* the report text, <<>> until generated
    output_file,     \* what has been written to args.output, <<>> if nothing
    exit_status      \* <<>> while running, <<status>> once the process has ended

vars == <<pc, args, input_file, output_writable, review_data, metrics, issues,
          warnings, score, passed, report, output_file, exit_status>>

(***************************************************************************)
(* Inputs                                                                  *)
(***************************************************************************)
Obj(r) == [t |-> "obj", v |-> r]

List(q) == [t |-> "list", v |-> q]

\* longest issues sequence of an arbitrary document
MaxIssues == 3

\* longest issues sequence of a scoring document
MaxScoreLen == 5

\* longest run of issues of one severity in a scoring document
MaxRun == 11

\* elements an issues sequence is drawn from: well-formed ones of every
\* severity, and one of every way an element can be malformed
RawIssues ==
    { Obj([category |-> "security", severity |-> "critical", message |-> "m1", file |-> "a.py"]),
      Obj([severity |-> "error", message |-> "m2", file |-> "b.py"]),
      Obj([category |-> "architecture", severity |-> "warning", message |-> "m3", file |-> "a.py"]),
      Obj([severity |-> "warning", message |-> "m4", file |-> "b.py"]),
      Obj([message |-> "m5", file |-> "c.py"]),
      Obj([severity |-> "warning", file |-> "a.py"]),
      Obj([severity |-> "error", message |-> "m6"]),
      Obj([category |-> "style", severity |-> "critical", message |-> "m7", file |-> "a.py"]),
      Obj([severity |-> "fatal", message |-> "m8", file |-> "b.py"]),
      Obj([severity |-> "warning", message |-> "", file |-> "a.py"]),
      Obj([severity |-> "info", message |-> "m9", file |-> ""]),
      [t |-> "str", has |-> {}] }

SeqsUpTo(S, n) == UNION {[1..k -> S] : k \in 0..n}

RawMetrics ==
    { Obj([test_coverage |-> 60, duplication |-> 8]),
      Obj([test_coverage |-> 85]) }

\* top-level values that are key/value mappings
MappingDocs ==
    {Obj([issues |-> List(q)]) : q \in SeqsUpTo(RawIssues, MaxIssues)}
    \cup {Obj([metrics |-> m, issues |-> List(q)]) :
             m \in RawMetrics, q \in SeqsUpTo(RawIssues, 1)}
    \cup {Obj([metrics |-> m]) : m \in RawMetrics}
    \cup {Obj([metrics |-> [t |-> "null"]]), Obj([issues |-> [t |-> "null"]])}

\* top-level values that are not mappings, and a file json.load cannot read
OtherDocs ==
    { List(<<>>), List(<<"issues">>), List(<<"metrics">>),
      [t |-> "str", has |-> {}], [t |-> "str", has |-> {"metrics"}],
      [t |-> "str", has |-> {"issues"}],
      [t |-> "null"], [t |-> "unreadable"] }

WellFormed(sev) == Obj([severity |-> sev, message |-> "m", file |-> "f.py"])

\* runs of one severity up to MaxRun with at most one other issue in front
RunLists ==
    {front \o [k \in 1..n |-> sev] :
        front \in SeqsUpTo(Severities, 1), n \in 0..MaxRun, sev \in Severities}

CoverageValues == {0, 60, 79, 80, 81, 100}

DuplicationValues == {0, 5, 6, 8, 100}

\* <<test_coverage, duplication>> pairs around both thresholds of the score
MetricsGrid == CoverageValues \X DuplicationValues

AsIssues(q) == List([k \in 1..Len(q) |-> WellFormed(q[k])])

AsMetrics(m) == Obj([test_coverage |-> m[1], duplication |-> m[2]])

\* every list with favourable and with unfavourable metrics, the short lists
\* with every pair of the grid, the runs with the best and the worst metrics
ScoreDocs ==
    {Obj([metrics |-> AsMetrics(m), issues |-> AsIssues(q)]) :
        m \in {<<100, 0>>, <<60, 8>>}, q \in SeqsUpTo(Severities, MaxScoreLen)}
    \cup {Obj([metrics |-> AsMetrics(m), issues |-> AsIssues(q)]) :
        m \in MetricsGrid, q \in SeqsUpTo(Severities, 1)}
    \cup {Obj([metrics |-> AsMetrics(m), issues |-> AsIssues(q)]) :
        m \in {<<100, 0>>, <<0, 100>>}, q \in RunLists}

InitWith(docs, stricts, writables) ==
    /\ pc = "start"
    /\ args \in [strict : stricts]
    /\ input_file \in docs
    /\ output_writable \in writables
    /\ review_data = [t |-> "null"]
    /\ metrics = DefaultMetrics
    /\ issues = <<>>
    /\ warnings = 0
    /\ score = FloatOfInt(0)
    /\ passed = TRUE
    /\ report = <<>>
    /\ output_file = <<>>
    /\ exit_status = <<>>

Init == InitWith(MappingDocs \cup OtherDocs, BOOLEAN, BOOLEAN)

InitScore == InitWith(ScoreDocs, {FALSE}, {TRUE})

(***************************************************************************)
(* main                                                                    *)
(***************************************************************************)
\* with open(args.input) as f: review_data = json.load(f)
LoadReviewData ==
    /\ pc = "start"
    /\ input_file.t # "unreadable"
    /\ review_data' = input_file
    /\ pc' = "loaded"
    /\ UNCHANGED <<args, input_file, output_writable, metrics, issues, warnings,
                   score, passed, report, output_file, exit_status>>

\* except Exception: print(...); return 1
LoadReviewDataFails ==
    /\ pc = "start"
    /\ input_file.t = "unreadable"
    /\ pc' = "exited"
    /\ exit_status' = <<1>>
    /\ UNCHANGED <<args, input_file, output_writable, review_data, metrics, issues,
                   warnings, score, passed, report, output_file>>

\* an exception nothing catches: traceback, the interpreter exits with status 1
Crash ==
    /\ pc' = "crashed"
    /\ exit_status' = <<1>>
    /\ UNCHANGED <<args, input_file, output_writable, review_data, metrics, issues,
                   warnings, score, passed, report, output_file>>

\* parse_review_data: metrics=self._extract_metrics(data)
ExtractMetrics ==
    /\ pc = "loaded"
    /\ ~extract_metrics(review_data).raised
    /\ metrics' = extract_metrics(review_data).metrics
    /\ pc' = "metrics"
    /\ UNCHANGED <<args, input_file, output_writable, review_data, issues, warnings,
                   score, passed, report, output_file, exit_status>>

ExtractMetricsRaises ==
    /\ pc = "loaded"
    /\ extract_metrics(review_data).raised
    /\ Crash

\* parse_review_data: issues=self._extract_issues(data)
ExtractIssues ==
    /\ pc = "metrics"
    /\ ~extract_issues(review_data).raised
    /\ issues' = extract_issues(review_data).issues
    /\ warnings' = extract_issues(review_data).warned
    /\ pc' = "issues"
    /\ UNCHANGED <<args, input_file, output_writable, review_data, metrics,
                   score, passed, report, output_file, exit_status>>

ExtractIssuesRaises ==
    /\ pc = "metrics"
    /\ extract_issues(review_data).raised
    /\ Crash

\* parse_review_data: result.score = self._calculate_score(result)
CalculateScore ==
    /\ pc = "issues"
    /\ score' = calculate_score(issues, metrics)
    /\ pc' = "scored"
    /\ UNCHANGED <<args, input_file, output_writable, review_data, metrics, issues,
                   warnings, passed, report, output_file, exit_status>>

\* parse_review_data: result.passed = self._determine_pass_status(result)
DeterminePassStatus ==
    /\ pc = "scored"
    /\ passed' = determine_pass_status(issues)
    /\ pc' = "parsed"
    /\ UNCHANGED <<args, input_file, output_writable, review_data, metrics, issues,
                   warnings, score, report, output_file, exit_status>>

\* report = review_parser.generate_markdown_report(result)
GenerateReport ==
    /\ pc = "parsed"
    /\ report' = <<generate_markdown_report(issues, score, passed)>>
    /\ pc' = "reported"
    /\ UNCHANGED <<args, input_file, output_writable, review_data, metrics, issues,
                   warnings, score, passed, output_file, exit_status>>

\* with open(args.output, 'w') as f: f.write(report)
WriteOutput ==
    /\ pc = "reported"
    /\ output_writable
    /\ output_file' = report
    /\ pc' = "written"
    /\ UNCHANGED <<args, input_file, output_writable, review_data, metrics, issues,
                   warnings, score, passed, report, exit_status>>

\* except Exception: print(...); return 1
WriteOutputFails ==
    /\ pc = "reported"
    /\ ~output_writable
    /\ pc' = "exited"
    /\ exit_status' = <<1>>
    /\ UNCHANGED <<args, input_file, output_writable, review_data, metrics, issues,
                   warnings, score, passed, report, output_file>>

\* ExitWithVerdict returning the statuses the wrong way round
ExitWithVerdictInverted ==
    /\ pc = "written"
    /\ exit_status' = <<IF ~passed THEN 0 ELSE 1>>
    /\ pc' = "exited"
    /\ UNCHANGED <<args, input_file, output_writable, review_data, metrics, issues,
                   warnings, score, passed, report, output_file>>

\* if not result.passed: return 1  else: return 0
ExitWithVerdict ==
    /\ pc = "written"
    /\ exit_status' = <<IF ~passed THEN 1 ELSE 0>>
    /\ pc' = "exited"
    /\ UNCHANGED <<args, input_file, output_writable, review_data, metrics, issues,
                   warnings, score, passed, report, output_file>>

Next ==
    \/ LoadReviewData
    \/ LoadReviewDataFails
    \/ ExtractMetrics
    \/ ExtractMetricsRaises
    \/ ExtractIssues
    \/ ExtractIssuesRaises
    \/ CalculateScore
    \/ DeterminePassStatus
    \/ GenerateReport
    \/ WriteOutput
    \/ WriteOutputFails
    \/ ExitWithVerdict

Spec == Init /\ [][Next]_vars

\* runs over well-formed documents whose output file can be written
NextScore ==
    \/ LoadReviewData
    \/ ExtractMetrics
    \/ ExtractIssues
    \/ CalculateScore
    \/ DeterminePassStatus
    \/ GenerateReport
    \/ WriteOutput
    \/ ExitWithVerdict

SpecScore == InitScore /\ [][NextScore]_vars

(***************************************************************************)
(* Properties                                                              *)
(***************************************************************************)
\* positions of main at which result.score has been assigned
Scored == pc \in {"scored", "parsed", "reported", "written", "exited"}

\* positions of main at which result.passed has been assigned
Judged == pc \in {"parsed", "reported", "written", "exited"}

\* C1: every stored score satisfies 0 <= score <= 100, however many issues
\* there are and whatever the coverage and duplication
ScoreInRange ==
    Scored => /\ ~FLess(score, FloatOfInt(0))
              /\ ~FLess(FloatOfInt(100), score)

\* a run whose raw total is far below zero: eleven critical issues or more,
\* coverage 0, duplication 100, and a stored score of 0.0
ScoreClampedAtZero ==
    /\ pc = "exited"
    /\ severity_counts(issues, "critical") >= 11
    /\ metrics.test_coverage = 0
    /\ metrics.duplication_percentage = 100
    /\ FIsZero(score)

\* C2: the verdict is fail exactly when there is a critical issue, an error
\* issue or more than 10 warning issues; info issues, metrics and score play
\* no part
VerdictMatchesThresholds ==
    Judged =>
        (passed <=> ~(\/ severity_counts(issues, "critical") > 0
                      \/ severity_counts(issues, "error") > 0
                      \/ severity_counts(issues, "warning") > 10))

\* exactly 10 warnings and an info issue, nothing worse: the review passes
PassesAtTenWarnings ==
    /\ pc = "exited"
    /\ severity_counts(issues, "warning") = 10
    /\ severity_counts(issues, "info") = 1
    /\ Len(issues) = 11
    /\ passed

\* the value of the formula of the score in tenths, before clamping
RawTenths(iss, m) ==
    1000 - 100 * severity_counts(iss, "critical")
         - 50 * severity_counts(iss, "error")
         - 10 * severity_counts(iss, "warning")
         - severity_counts(iss, "info")
         - (IF m.test_coverage < 80 THEN (80 - m.test_coverage) * 2 ELSE 0)
         - (IF m.duplication_percentage > 5
            THEN (m.duplication_percentage - 5) * 20 ELSE 0)

\* clamp to [0, 100], in tenths
FormulaTenths(iss, m) ==
    IF RawTenths(iss, m) < 0 THEN 0
    ELSE IF RawTenths(iss, m) > 1000 THEN 1000
    ELSE RawTenths(iss, m)

\* the float nearest to t / 10 for 0 <= t <= 1000: long division of the
\* fraction by 10, then one rounding that takes the remainder into account
TenthsToFloat(t) ==
    LET d  == t % 10
        h  == (d * HBase) \div 10
        r1 == (d * HBase) % 10
        a  == (r1 * 2^15) \div 10
        r2 == (r1 * 2^15) % 10
        b  == (r2 * 2^15) \div 10
        r3 == (r2 * 2^15) % 10
        x  == [i |-> t \div 10, h |-> h, l |-> a * 2^15 + b]
        e  == Exponent(x)
        s  == IF e >= -3 THEN e + 3 ELSE 0
        unit == 2^s
        r  == x.l % unit
        odd == ((x.l \div unit) % 2) = 1
        up == \/ 20 * r + 2 * r3 > 10 * unit
              \/ 20 * r + 2 * r3 = 10 * unit /\ odd
    IN  Normalize(x.i, x.h, x.l - r + (IF up THEN unit ELSE 0))

\* |a - b| <= 2^-30, which is less than 1e-9
FClose(a, b) ==
    LET d == ExactSub(a, b)
    IN  \/ d.i = 0 /\ d.h = 0 /\ d.l <= 2^25
        \/ d.i = -1 /\ d.h = HBase - 1 /\ d.l >= LBase - 2^25

\* C3 as stated: the score is the value of the clamped formula
ScoreEqualsFormula ==
    Scored => score = TenthsToFloat(FormulaTenths(issues, metrics))

\* C3: the score is the value of the clamped formula up to the rounding of
\* the successive float subtractions (within 1e-9 of it); coverage 60 and
\* duplication 8 without issues give exactly 90.0
ScoreFollowsFormula ==
    Scored =>
        /\ FClose(score, TenthsToFloat(FormulaTenths(issues, metrics)))
        /\ (issues = <<>> /\ metrics.test_coverage = 60
            /\ metrics.duplication_percentage = 8) => score = FloatOfInt(90)

\* issues of all four severities with coverage 60 and duplication 8, so that
\* every term of the formula deducts
EveryTermDeducts ==
    /\ pc = "exited"
    /\ \A sev \in Severities : severity_counts(issues, sev) >= 1
    /\ metrics.test_coverage = 60
    /\ metrics.duplication_percentage = 8
    /\ score = TenthsToFloat(FormulaTenths(issues, metrics))
    /\ FormulaTenths(issues, metrics) < 900

\* an element data['issues'] can hold that yields an issue: a mapping with a
\* message, a file, and a known (or absent) category and severity
WellFormedElement(e) ==
    /\ IsObj(e)
    /\ "message" \in DOMAIN e.v
    /\ "file" \in DOMAIN e.v
    /\ ("category" \in DOMAIN e.v => e.v.category \in IssueCategory)
    /\ ("severity" \in DOMAIN e.v => e.v.severity \in Severities)

\* review_data is a mapping whose issues entry is a sequence
HasIssuesSequence ==
    /\ IsObj(review_data)
    /\ "issues" \in DOMAIN review_data.v
    /\ review_data.v.issues.t = "list"

\* C4: whatever the issues sequence holds, extraction does not abort, and the
\* issue list is the well-formed elements, in input order
ExtractionNeverAborts ==
    (HasIssuesSequence /\ pc \notin {"loaded", "metrics"}) =>
        /\ pc # "crashed"
        /\ LET kept == SelectSeq(review_data.v.issues.v, WellFormedElement)
           IN  /\ Len(issues) = Len(kept)
               /\ \A k \in 1..Len(kept) :
                     /\ issues[k].message = kept[k].v.message
                     /\ issues[k].file_path = kept[k].v.file

\* C5 as stated: once the document is loaded and main returns, the exit
\* status is 0 when the verdict is pass and non-zero when it is fail
ExitStatusIsVerdict ==
    (pc = "exited" /\ report # <<>>) =>
        exit_status = <<IF passed THEN 0 ELSE 1>>

\* C5: once the document is loaded and main returns, the exit status is 0
\* when the verdict is pass and the report was written, and 1 when the
\* verdict is fail or the report could not be written
ExitStatusIsVerdictWhenWritten ==
    (pc = "exited" /\ report # <<>>) =>
        exit_status = <<IF passed /\ output_file # <<>> THEN 0 ELSE 1>>

\* a passing run whose report was written ends with status 0
PassingRunExitsZero ==
    /\ pc = "exited"
    /\ output_file # <<>>
    /\ passed
    /\ Len(issues) >= 1
    /\ exit_status = <<0>>

\* C6: every issue of the result has a non-empty message and file_path
IssuesHaveMessageAndFile ==
    pc \in {"issues", "scored", "parsed", "reported", "written", "exited"} =>
        \A k \in 1..Len(issues) :
            issues[k].message # "" /\ issues[k].file_path # ""

\* C7: when the top-level value is not a mapping, or the file cannot be read,
\* main fails without writing a report; a report is only written once a
\* mapping has been ingested, scored and judged
StructuralFaultsFailHard ==
    /\ ~IsObj(input_file) =>
          /\ output_file = <<>>
          /\ pc \in {"exited", "crashed"} => exit_status = <<1>>
    /\ output_file # <<>> => IsObj(input_file) /\ pc \in {"written", "exited"}

\* C9: under --strict a review with a warning issue fails and main returns a
\* non-zero status
StrictFailsOnWarnings ==
    (args.strict /\ Judged /\ severity_counts(issues, "warning") >= 1) =>
        /\ ~passed
        /\ pc = "exited" => exit_status = <<1>>

RECURSIVE PermutationsOf(_)
\* the distinct orderings of a sequence
PermutationsOf(q) ==
    IF q = <<>> THEN {<<>>}
    ELSE LET firsts == {k \in 1..Len(q) : \A j \in 1..(k - 1) : q[j] # q[k]}
             Without(k) == [j \in 1..(Len(q) - 1) |-> IF j < k THEN q[j] ELSE q[j + 1]]
         IN  UNION {{<<q[k]>> \o rest : rest \in PermutationsOf(Without(k))} : k \in firsts}

\* C8 as stated: every permutation of the issue list has the same score
ScoreOrderIndependent ==
    pc = "scored" =>
        \A q \in PermutationsOf(issues) : calculate_score(q, metrics) = score

\* C8: every permutation of the issue list has the same score up to the
\* rounding of the successive float subtractions (within 1e-9)
ScoreOrderIndependentUpToRounding ==
    pc = "scored" =>
        \A q \in PermutationsOf(issues) : FClose(calculate_score(q, metrics), score)

\* an issue list one of whose permutations has a score of different bits
OrderChangesLastBits ==
    /\ pc = "scored"
    /\ \E q \in PermutationsOf(issues) : calculate_score(q, metrics) # score

\* the issues section of the generated report
IssuesSection == report[1].issues_section

\* position in the input of the n-th issue of severity sev
NthOfSeverity(sev, n) ==
    CHOOSE k \in 1..Len(issues) :
        /\ issues[k].severity = sev
        /\ Cardinality({j \in 1..k : issues[j].severity = sev}) = n

\* position of sev in the order critical, error, warning, info
Rank(sev) == CHOOSE k \in 1..Len(Severity) : Severity[k] = sev

\* C10: the issues section has one subsection for each of critical, error and
\* warning that has an issue, in that order; a subsection lists the issues of
\* its severity in input order, each once; info issues are not listed
IssuesSectionListsBySeverity ==
    report # <<>> =>
        LET out == IssuesSection
            headings == {p \in 1..Len(out) : out[p].kind = "heading"}
            listed == {p \in 1..Len(out) : out[p].kind = "issue"}
        IN  /\ \A sev \in Severities :
                  Cardinality({p \in headings : out[p].severity = sev})
                    = IF sev # "info" /\ severity_counts(issues, sev) > 0 THEN 1 ELSE 0
            /\ \A p, r \in headings :
                  p < r => Rank(out[p].severity) < Rank(out[r].severity)
            /\ Cardinality(listed)
                 = Cardinality({k \in 1..Len(issues) : issues[k].severity # "info"})
            /\ \A p \in headings :
                  \A n \in 1..severity_counts(issues, out[p].severity) :
                      /\ p + n \in listed
                      /\ out[p + n].file = issues[NthOfSeverity(out[p].severity, n)].file_path
                      /\ out[p + n].message = issues[NthOfSeverity(out[p].severity, n)].message
                      /\ out[p + n].title =
                            CategoryTitle(issues[NthOfSeverity(out[p].severity, n)].category)

\* a written report for a warning that precedes a critical issue in the input,
\* with an info issue as well: the critical subsection comes first
SectionReordersBySeverity ==
    /\ pc = "exited"
    /\ output_file # <<>>
    /\ Len(issues) = 3
    /\ issues[1].severity = "warning"
    /\ \E k \in 2..3 : issues[k].severity = "critical"
    /\ \E k \in 2..3 : issues[k].severity = "info"
    /\ Len(IssuesSection) = 5
    /\ IssuesSection[2] = [kind |-> "heading", severity |-> "critical"]
    /\ IssuesSection[4] = [kind |-> "heading", severity |-> "warning"]

====
